---- MODULE Spec2Model ----
(***************************************************************************)
(* QEChannelListModel (electrum/gui/qml/qechannellistmodel.py): the list   *)
(* model that shows a wallet's Lightning channels to the QML user          *)
(* interface.  The model's state is the adapter's row list, the wallet's   *)
(* channel collection it mirrors, the notifications of the latest          *)
(* operation, the exception it raised if any, the two filter proxies, and  *)
(* whether the adapter's event callbacks are registered.                   *)
(***************************************************************************)
EXTENDS Integers, Sequences, FiniteSets, TLC

\* ---------------------------------------------------------------- bounds
\* Longest row list new_channel is allowed to build.
MaxRows == 2

\* Channel ids of the wallet under observation.
Cids == {"c1", "c2"}

\* The wallets whose events reach the event bus; self.wallet is the first.
Wallets == {"w1", "w2"}
wallet == "w1"

\* ------------------------------------------------------- program constants
\* ChannelState members used by the model (electrum.lnchannel.ChannelState).
OPEN == 3
SHUTDOWN == 4
StateCodes == {OPEN, SHUTDOWN}

\* chan_sort_score adds this to the state code of a backup.
BackupScore == 10

\* Qt.UserRole, the key of the first role.
UserRole == 256

_ROLE_NAMES ==
    << "cid", "state", "state_code", "initiator", "capacity", "can_send",
       "can_receive", "l_csv_delay", "r_csv_delay", "send_frozen", "receive_frozen",
       "type", "node_id", "node_alias", "short_cid", "funding_tx", "is_trampoline",
       "is_backup", "is_imported", "local_capacity", "remote_capacity" >>

_ROLE_KEYS == UserRole .. (UserRole + Len(_ROLE_NAMES) - 1)

_ROLE_RMAP == [n \in {_ROLE_NAMES[i] : i \in 1..Len(_ROLE_NAMES)} |->
                 UserRole - 1 + CHOOSE i \in 1..Len(_ROLE_NAMES) : _ROLE_NAMES[i] = n]

\* ------------------------------------------------------------ the domain
\* No channel object under a channel id.
NoChan == [kind |-> "none", state |-> 0, msat |-> 0, imported |-> FALSE]

\* A Channel of lnworker.channels.
RegularChannel(state, msat) ==
    [kind |-> "channel", state |-> state, msat |-> msat, imported |-> FALSE]

\* A ChannelBackup of lnworker.channel_backups.
BackupChannel(state, imported) ==
    [kind |-> "backup", state |-> state, msat |-> 0, imported |-> imported]

\* The channel objects the Lightning engine holds in the model: among the
\* regular channels a balance and a state each change on their own; the
\* backups differ in state and in the imported flag.
ChannelObjects ==
    { RegularChannel(OPEN, 1000), RegularChannel(OPEN, 2000),
      RegularChannel(SHUTDOWN, 1000),
      BackupChannel(OPEN, TRUE), BackupChannel(SHUTDOWN, FALSE) }

\* A channel object as the adapter receives it: the id and the object's state.
Lnc(cid, obj) == [channel_id |-> cid, obj |-> obj]

\* AbstractChannel accessors.
is_backup(lnc) == lnc.obj.kind = "backup"
get_state(lnc) == lnc.obj.state
get_state_for_GUI(lnc) == IF lnc.obj.state = OPEN THEN "OPEN" ELSE "SHUTDOWN"
node_id(lnc) == IF lnc.channel_id = "c1" THEN "node1" ELSE "node2"
short_id_for_GUI(lnc) == IF lnc.channel_id = "c1" THEN "1x1x1" ELSE "2x2x2"
get_capacity(lnc) == 5
available_to_spend(lnc, side) == IF side = "LOCAL" THEN lnc.obj.msat ELSE lnc.obj.msat - 1000
balance(lnc, side) == IF side = "LOCAL" THEN lnc.obj.msat ELSE get_capacity(lnc) * 1000 - lnc.obj.msat

\* LNWallet.get_node_alias and is_trampoline_peer.
get_node_alias(nid) == IF nid = "node1" THEN "alice" ELSE ""
is_trampoline_peer(nid) == nid = "node2"

\* QEAmount(amount_sat, amount_msat), both 0 by default.
QEAmount(sat, msat) == [amount_sat |-> sat, amount_msat |-> msat]

VARIABLES
    lnworker,      \* TRUE iff wallet.lnworker is set
    domain,        \* channel id -> channel object of the Lightning engine, or NoChan
    has_channels,  \* TRUE iff the attribute self.channels has been assigned
    channels,      \* self.channels: the row list (<<>> while unassigned)
    signals,       \* notifications emitted by the latest operation, in order
    error,         \* exception the latest operation raised, or "none"
    fm_backups,    \* self._fm_backups: whether created, and proxy row -> source row
    fm_nobackups,  \* self._fm_nobackups, likewise
    registered,    \* TRUE iff the on_event_* callbacks are registered
    destroyed      \* TRUE iff the destroyed signal of the adapter has fired

vars == << lnworker, domain, has_channels, channels, signals, error,
           fm_backups, fm_nobackups, registered, destroyed >>

\* ------------------------------------------------------- pure operations
\* dict.update: the keys of new replace or extend those of old.
DictUpdate(old, new) ==
    [k \in (DOMAIN old) \cup (DOMAIN new) |-> IF k \in DOMAIN new THEN new[k] ELSE old[k]]

channel_to_model(lnc) ==
    LET common ==
            [cid |-> lnc.channel_id,
             node_id |-> node_id(lnc),
             node_alias |-> get_node_alias(node_id(lnc)),
             short_cid |-> short_id_for_GUI(lnc),
             state |-> get_state_for_GUI(lnc),
             state_code |-> get_state(lnc),
             is_backup |-> is_backup(lnc),
             is_trampoline |-> is_trampoline_peer(node_id(lnc)),
             capacity |-> QEAmount(get_capacity(lnc), 0)]
    IN  IF is_backup(lnc)
        THEN DictUpdate(common,
                 [can_send |-> QEAmount(0, 0),
                  can_receive |-> QEAmount(0, 0),
                  local_capacity |-> QEAmount(0, 0),
                  remote_capacity |-> QEAmount(0, 0),
                  is_imported |-> lnc.obj.imported])
        ELSE DictUpdate(common,
                 [can_send |-> QEAmount(0, available_to_spend(lnc, "LOCAL")),
                  can_receive |-> QEAmount(0, available_to_spend(lnc, "REMOTE")),
                  local_capacity |-> QEAmount(0, balance(lnc, "LOCAL")),
                  remote_capacity |-> QEAmount(0, balance(lnc, "REMOTE")),
                  is_imported |-> FALSE])

\* chan_sort_score without the backup term: the order is by state code alone.
chan_sort_score_StateOnly(c) == c.state_code

chan_sort_score(c) == c.state_code + (IF c.is_backup THEN BackupScore ELSE 0)

\* list.sort(key=chan_sort_score): stable, ascending by key.
RECURSIVE InsertByScore(_, _)
InsertByScore(sorted, c) ==
    IF sorted = << >> THEN << c >>
    ELSE IF chan_sort_score(sorted[Len(sorted)]) <= chan_sort_score(c)
         THEN Append(sorted, c)
         ELSE Append(InsertByScore(SubSeq(sorted, 1, Len(sorted) - 1), c),
                     sorted[Len(sorted)])

RECURSIVE SortByScore(_)
SortByScore(s) ==
    IF s = << >> THEN << >>
    ELSE InsertByScore(SortByScore(SubSeq(s, 1, Len(s) - 1)), s[Len(s)])

\* A call that returns value, and a call that raises exc.
Ok(value) == [error |-> "none", value |-> value]
Raise(exc) == [error |-> exc, value |-> 0]

\* One emitted notification: its name, its arguments (row numbers count from
\* 0, as in the code), and self.channels at the moment it is emitted.
Emit(name, args, list) == [name |-> name, args |-> args, list |-> list]

\* What a state-changing method leaves behind: whether self.channels exists,
\* its value, the notifications emitted in order, and the exception raised.
Outcome(has, list, out, exc) == [has |-> has, list |-> list, out |-> out, error |-> exc]

\* dict.values() enumerates in the dict's insertion order, which the
\* Lightning engine decides: any order of the keys.
Orders(S) ==
    {f \in [1..Cardinality(S) -> S] : \A i, j \in 1..Cardinality(S) : i # j => f[i] # f[j]}

\* Keys of lnworker.get_channel_objects(): channels and channel backups.
get_channel_objects(dom) == {c \in Cids : dom[c] # NoChan}

\* Keys of lnworker.channels: the regular channels only.
lnworker_channels(dom) == {c \in Cids : dom[c].kind = "channel"}

\* Smallest position (from 1) of a row with this cid, 0 if there is none:
\* the for loops of on_channel_updated and remove_channel.
FirstWithCid(list, cid) ==
    IF \E i \in 1..Len(list) : list[i].cid = cid
    THEN CHOOSE i \in 1..Len(list) :
            /\ list[i].cid = cid
            /\ \A j \in 1..(i - 1) : list[j].cid # cid
    ELSE 0

\* list.remove(x): drops the first element equal to x.
ListRemove(list, x) ==
    LET j == CHOOSE i \in 1..Len(list) :
                /\ list[i] = x
                /\ \A k \in 1..(i - 1) : list[k] # x
    IN  SubSeq(list, 1, j - 1) \o SubSeq(list, j + 1, Len(list))

\* ------------------------------------------------------------- the reads
rowCount(has, list) == IF has THEN Ok(Len(list)) ELSE Raise("AttributeError")

count(has, list) == IF has THEN Ok(Len(list)) ELSE Raise("AttributeError")

data(has, list, row, role) ==
    IF ~has THEN Raise("AttributeError")
    ELSE IF row + 1 \notin 1..Len(list) THEN Raise("IndexError")
    ELSE LET tx == list[row + 1]
             role_index == role - UserRole
             name == _ROLE_NAMES[role_index + 1]
         IN  IF name \in DOMAIN tx THEN Ok(tx[name]) ELSE Raise("KeyError")

RECURSIVE SumOpen(_)
SumOpen(list) ==
    IF list = << >> THEN 0
    ELSE (IF Head(list).state_code = OPEN THEN 1 ELSE 0) + SumOpen(Tail(list))

numOpenChannels(has, list) == IF has THEN Ok(SumOpen(list)) ELSE Raise("AttributeError")

\* ------------------------------------------------- the state-changing methods
clear(list) ==
    Outcome(TRUE, << >>,
            << Emit("beginResetModel", << >>, list), Emit("endResetModel", << >>, << >>) >>,
            "none")

\* init_model that keeps the rows it had and adds the rebuilt ones.
init_model_KeepOld(ln, dom, has, list, order) ==
    IF ~ln THEN Outcome(has, list, << >>, "none")
    ELSE LET unsorted == [i \in 1..Len(order) |-> channel_to_model(Lnc(order[i], dom[order[i]]))]
             sorted == SortByScore(list \o unsorted)
         IN  Outcome(TRUE, sorted,
                     << Emit("beginResetModel", << >>, list),
                        Emit("endResetModel", << >>, << >>),
                        Emit("beginInsertRows", << 0, Len(sorted) - 1 >>, << >>),
                        Emit("endInsertRows", << 0, Len(sorted) - 1 >>, sorted),
                        Emit("countChanged", << >>, sorted) >>,
                     "none")

init_model(ln, dom, has, list, order) ==
    IF ~ln THEN Outcome(has, list, << >>, "none")
    ELSE LET unsorted == [i \in 1..Len(order) |-> channel_to_model(Lnc(order[i], dom[order[i]]))]
             sorted == SortByScore(unsorted)
             cleared == clear(list)
         IN  Outcome(TRUE, sorted,
                     cleared.out \o
                     << Emit("beginInsertRows", << 0, Len(sorted) - 1 >>, cleared.list),
                        Emit("endInsertRows", << 0, Len(sorted) - 1 >>, sorted),
                        Emit("countChanged", << >>, sorted) >>,
                     "none")

\* do_update that patches the state fields only.
do_update_StateOnly(list, modelindex, lnc) ==
    LET fresh == channel_to_model(lnc)
        updated == [list EXCEPT ![modelindex + 1] =
                       DictUpdate(@, [state |-> fresh.state, state_code |-> fresh.state_code])]
    IN  Outcome(TRUE, updated,
                << Emit("dataChanged", << modelindex, modelindex >>, updated),
                   Emit("numOpenChannelsChanged", << >>, updated) >>,
                "none")

\* do_update that patches every field but the amounts and the imported flag.
do_update_KeepAmounts(list, modelindex, lnc) ==
    LET fresh == channel_to_model(lnc)
        kept == {"can_send", "can_receive", "local_capacity", "remote_capacity",
                 "is_imported"}
        updated == [list EXCEPT ![modelindex + 1] =
                       [k \in DOMAIN @ |-> IF k \in kept THEN @[k] ELSE fresh[k]]]
    IN  Outcome(TRUE, updated,
                << Emit("dataChanged", << modelindex, modelindex >>, updated),
                   Emit("numOpenChannelsChanged", << >>, updated) >>,
                "none")

\* do_update that does not announce the changed row.
do_update_Silent(list, modelindex, lnc) ==
    LET updated == [list EXCEPT ![modelindex + 1] = DictUpdate(@, channel_to_model(lnc))]
    IN  Outcome(TRUE, updated,
                << Emit("numOpenChannelsChanged", << >>, updated) >>,
                "none")

do_update(list, modelindex, lnc) ==
    LET updated == [list EXCEPT ![modelindex + 1] = DictUpdate(@, channel_to_model(lnc))]
    IN  Outcome(TRUE, updated,
                << Emit("dataChanged", << modelindex, modelindex >>, updated),
                   Emit("numOpenChannelsChanged", << >>, updated) >>,
                "none")

on_channel_updated(has, list, lnc) ==
    IF ~has THEN Outcome(has, list, << >>, "AttributeError")
    ELSE LET i == FirstWithCid(list, lnc.channel_id)
         IN  IF i = 0 THEN Outcome(has, list, << >>, "none")
             ELSE do_update(list, i - 1, lnc)

\* new_channel that looks the cid up among all channel objects, backups too.
new_channel_AnyObject(ln, dom, has, list, cid) ==
    IF ~ln THEN Outcome(has, list, << >>, "AttributeError")
    ELSE IF cid \notin get_channel_objects(dom) THEN Outcome(has, list, << >>, "none")
    ELSE LET item == channel_to_model(Lnc(cid, dom[cid]))
             grown == << item >> \o list
         IN  Outcome(TRUE, grown,
                     << Emit("beginInsertRows", << 0, 0 >>, list),
                        Emit("endInsertRows", << 0, 0 >>, grown),
                        Emit("countChanged", << >>, grown) >>,
                     "none")

\* new_channel that appends the row instead of prepending it.
new_channel_Append(ln, dom, has, list, cid) ==
    IF ~ln THEN Outcome(has, list, << >>, "AttributeError")
    ELSE IF cid \notin lnworker_channels(dom) THEN Outcome(has, list, << >>, "none")
    ELSE LET item == channel_to_model(Lnc(cid, dom[cid]))
             grown == list \o << item >>
         IN  Outcome(TRUE, grown,
                     << Emit("beginInsertRows", << 0, 0 >>, list),
                        Emit("endInsertRows", << 0, 0 >>, grown),
                        Emit("countChanged", << >>, grown) >>,
                     "none")

new_channel(ln, dom, has, list, cid) ==
    IF ~ln THEN Outcome(has, list, << >>, "AttributeError")
    ELSE IF cid \notin lnworker_channels(dom) THEN Outcome(has, list, << >>, "none")
    ELSE IF ~has
         THEN Outcome(has, list, << Emit("beginInsertRows", << 0, 0 >>, list) >>,
                      "AttributeError")
    ELSE LET item == channel_to_model(Lnc(cid, dom[cid]))
             grown == << item >> \o list
         IN  Outcome(TRUE, grown,
                     << Emit("beginInsertRows", << 0, 0 >>, list),
                        Emit("endInsertRows", << 0, 0 >>, grown),
                        Emit("countChanged", << >>, grown) >>,
                     "none")

\* remove_channel that does not emit countChanged.
remove_channel_NoCount(has, list, cid) ==
    IF ~has THEN Outcome(has, list, << >>, "AttributeError")
    ELSE LET i == FirstWithCid(list, cid)
         IN  IF i = 0 THEN Outcome(has, list, << >>, "none")
             ELSE LET shrunk == ListRemove(list, list[i])
                  IN  Outcome(TRUE, shrunk,
                              << Emit("beginRemoveRows", << i - 1, i - 1 >>, list),
                                 Emit("endRemoveRows", << i - 1, i - 1 >>, shrunk) >>,
                              "none")

\* remove_channel that announces the row after the one it removes.
remove_channel_OffByOne(has, list, cid) ==
    IF ~has THEN Outcome(has, list, << >>, "AttributeError")
    ELSE LET i == FirstWithCid(list, cid)
         IN  IF i = 0 THEN Outcome(has, list, << >>, "none")
             ELSE LET shrunk == ListRemove(list, list[i])
                  IN  Outcome(TRUE, shrunk,
                              << Emit("beginRemoveRows", << i, i >>, list),
                                 Emit("endRemoveRows", << i, i >>, shrunk),
                                 Emit("countChanged", << >>, shrunk) >>,
                              "none")

remove_channel(has, list, cid) ==
    IF ~has THEN Outcome(has, list, << >>, "AttributeError")
    ELSE LET i == FirstWithCid(list, cid)
         IN  IF i = 0 THEN Outcome(has, list, << >>, "none")
             ELSE LET shrunk == ListRemove(list, list[i])
                  IN  Outcome(TRUE, shrunk,
                              << Emit("beginRemoveRows", << i - 1, i - 1 >>, list),
                                 Emit("endRemoveRows", << i - 1, i - 1 >>, shrunk),
                                 Emit("countChanged", << >>, shrunk) >>,
                              "none")

\* ------------------------------------------------------ the event callbacks
\* on_event_channel that does not compare the wallet.
on_event_channel_AnyWallet(w, has, list, lnc) ==
    on_channel_updated(has, list, lnc)

on_event_channel(w, has, list, lnc) ==
    IF w = wallet THEN on_channel_updated(has, list, lnc)
    ELSE Outcome(has, list, << >>, "none")

on_event_channels_updated(w, ln, dom, has, list, order) ==
    IF w = wallet THEN init_model(ln, dom, has, list, order)
    ELSE Outcome(has, list, << >>, "none")

\* register_callbacks in __init__: the callbacks are registered.
register_callbacks == TRUE

\* on_destroy that leaves the callbacks registered.
on_destroy_Forgets(reg) == reg

\* on_destroy: unregister_callbacks; the value is whether any stay registered.
on_destroy(reg) == FALSE

\* ------------------------------------------------------ the filter proxies
\* QEFilterProxyModel.filterAcceptsRow: the row's value under the filter role
\* equals the filter value.  Source rows are numbered from 1 here.
filterAcceptsRow(list, i, role, match) ==
    LET d == data(TRUE, list, i - 1, role)
    IN  d.error = "none" /\ d.value = match

AcceptedRows(list, rows, role, match) ==
    {i \in rows : i \in 1..Len(list) /\ filterAcceptsRow(list, i, role, match)}

\* No proxy yet.
NoProxy == [created |-> FALSE, role |-> 0, match |-> FALSE, rows |-> {}]

\* The proxy's reaction to one notification of its source model: it keeps the
\* set of source rows it shows, in source order.
ProxyOn(view, sig) ==
    LET first == sig.args[1] + 1
        last == sig.args[2] + 1
        n == last - first + 1
    IN  IF ~view.created THEN view
        ELSE IF sig.name = "endResetModel"
        THEN [view EXCEPT !.rows = AcceptedRows(sig.list, 1..Len(sig.list), view.role, view.match)]
        ELSE IF sig.name = "endInsertRows" /\ n > 0
        THEN [view EXCEPT !.rows =
                 {IF i >= first THEN i + n ELSE i : i \in view.rows}
                     \cup AcceptedRows(sig.list, first..last, view.role, view.match)]
        ELSE IF sig.name = "endRemoveRows" /\ n > 0
        THEN [view EXCEPT !.rows =
                 {IF i > last THEN i - n ELSE i : i \in view.rows \ (first..last)}]
        ELSE IF sig.name = "dataChanged"
        THEN [view EXCEPT !.rows =
                 (view.rows \ (first..last))
                     \cup AcceptedRows(sig.list, first..last, view.role, view.match)]
        ELSE view

RECURSIVE ProxySync(_, _)
ProxySync(view, out) ==
    IF out = << >> THEN view ELSE ProxySync(ProxyOn(view, Head(out)), Tail(out))

\* filterModel(role, match): a new proxy over the adapter.
filterModel(list, role, match) ==
    [created |-> TRUE, role |-> _ROLE_RMAP[role], match |-> match,
     rows |-> AcceptedRows(list, 1..Len(list), _ROLE_RMAP[role], match)]

\* The rows a proxy shows, top to bottom.
RECURSIVE Shown(_, _, _)
Shown(list, rows, i) ==
    IF i > Len(list) THEN << >>
    ELSE (IF i \in rows THEN << list[i] >> ELSE << >>) \o Shown(list, rows, i + 1)

\* The notifications as an observer of the signals receives them.
Observed(out) ==
    [k \in 1..Len(out) |->
        [name |-> out[k].name, args |-> out[k].args, rows |-> Len(out[k].list)]]

\* --------------------------------------------------------------- behaviour
\* __init__: init_model on the wallet as it is; no attribute channels before.
Init ==
    \E ln \in BOOLEAN :
    \E dom \in [Cids -> ChannelObjects \cup {NoChan}] :
    \E order \in Orders(get_channel_objects(dom)) :
        LET res == init_model(ln, dom, FALSE, << >>, order)
        IN  /\ (~ln => \A c \in Cids : dom[c] = NoChan)
            /\ lnworker = ln
            /\ domain = dom
            /\ has_channels = res.has
            /\ channels = res.list
            /\ signals = Observed(res.out)
            /\ error = res.error
            /\ fm_backups = NoProxy
            /\ fm_nobackups = NoProxy
            /\ registered = register_callbacks
            /\ destroyed = FALSE

\* The adapter after a method with this outcome, the proxies having received
\* its notifications.
Finish(res) ==
    /\ UNCHANGED << lnworker, domain, registered, destroyed >>
    /\ has_channels' = res.has
    /\ channels' = res.list
    /\ signals' = Observed(res.out)
    /\ error' = res.error
    /\ fm_backups' = ProxySync(fm_backups, res.out)
    /\ fm_nobackups' = ProxySync(fm_nobackups, res.out)

\* Rebuild: the init_model slot, also run by on_event_channels_updated.
InitModel ==
    /\ ~destroyed
    /\ \E order \in Orders(get_channel_objects(domain)) :
          Finish(init_model(lnworker, domain, has_channels, channels, order))

\* Apply-update: on_channel_updated with the wallet's channel object cid.
OnChannelUpdated(cid) ==
    /\ cid \in get_channel_objects(domain)
    /\ Finish(on_channel_updated(has_channels, channels, Lnc(cid, domain[cid])))

\* Insert: the new_channel slot.
NewChannel(cid) ==
    /\ ~destroyed
    /\ Len(channels) < MaxRows
    /\ Finish(new_channel(lnworker, domain, has_channels, channels, cid))

\* Remove: the remove_channel slot.
RemoveChannel(cid) ==
    /\ ~destroyed
    /\ Finish(remove_channel(has_channels, channels, cid))

\* The adapter is not reached: nothing of it changes, nothing is emitted.
Idle ==
    /\ signals' = << >>
    /\ error' = "none"
    /\ UNCHANGED << lnworker, domain, has_channels, channels, fm_backups, fm_nobackups,
                    registered, destroyed >>

\* The channel objects a channel event of wallet w can carry under cid: the
\* wallet's own object for self.wallet, a channel or a backup of the other
\* wallet otherwise.
EventObjects(w, cid) ==
    IF w = wallet THEN {domain[cid]} \ {NoChan}
    ELSE {RegularChannel(OPEN, 2000), BackupChannel(OPEN, TRUE)}

\* A channel event of wallet w with channel object (cid, obj) on the event
\* bus: it reaches on_event_channel while the callbacks are registered.
EventChannel(w, cid, obj) ==
    /\ obj \in EventObjects(w, cid)
    /\ IF registered
       THEN Finish(on_event_channel(w, has_channels, channels, Lnc(cid, obj)))
       ELSE Idle

\* A channels_updated event of wallet w on the event bus.
EventChannelsUpdated(w) ==
    IF registered
    THEN \E order \in Orders(get_channel_objects(domain)) :
            Finish(on_event_channels_updated(w, lnworker, domain, has_channels, channels,
                                             order))
    ELSE Idle

\* The destroyed signal: on_destroy.
Destroy ==
    /\ ~destroyed
    /\ destroyed' = TRUE
    /\ registered' = on_destroy(registered)
    /\ signals' = << >>
    /\ error' = "none"
    /\ UNCHANGED << lnworker, domain, has_channels, channels, fm_backups, fm_nobackups >>

FilterModelBackups ==
    /\ ~destroyed
    /\ fm_backups' = filterModel(channels, "is_backup", TRUE)
    /\ signals' = << >>
    /\ error' = "none"
    /\ UNCHANGED << lnworker, domain, has_channels, channels, fm_nobackups,
                    registered, destroyed >>

FilterModelNoBackups ==
    /\ ~destroyed
    /\ fm_nobackups' = filterModel(channels, "is_backup", FALSE)
    /\ signals' = << >>
    /\ error' = "none"
    /\ UNCHANGED << lnworker, domain, has_channels, channels, fm_backups,
                    registered, destroyed >>

\* The Lightning engine opens, closes, backs up or advances a channel.
DomainChange ==
    \E cid \in Cids :
    \E obj \in ChannelObjects \cup {NoChan} :
        /\ lnworker
        /\ obj # domain[cid]
        /\ domain' = [domain EXCEPT ![cid] = obj]
        /\ signals' = << >>
        /\ error' = "none"
        /\ UNCHANGED << lnworker, has_channels, channels, fm_backups, fm_nobackups,
                        registered, destroyed >>

Next ==
    \/ InitModel
    \/ \E w \in Wallets, cid \in Cids :
          \E obj \in EventObjects(w, cid) : EventChannel(w, cid, obj)
    \/ \E w \in Wallets : EventChannelsUpdated(w)
    \/ Destroy
    \/ \E cid \in Cids : NewChannel(cid)
    \/ \E cid \in Cids : RemoveChannel(cid)
    \/ FilterModelBackups
    \/ FilterModelNoBackups
    \/ DomainChange

Spec == Init /\ [][Next]_vars

\* The adapter while the user interface asks for no filter proxy: the row
\* list, the notifications and the callbacks behave as under Next, which the
\* proxies only observe.
NextList ==
    \/ InitModel
    \/ \E w \in Wallets, cid \in Cids :
          \E obj \in EventObjects(w, cid) : EventChannel(w, cid, obj)
    \/ \E w \in Wallets : EventChannelsUpdated(w)
    \/ Destroy
    \/ \E cid \in Cids : NewChannel(cid)
    \/ \E cid \in Cids : RemoveChannel(cid)
    \/ DomainChange

SpecList == Init /\ [][NextList]_vars

\* ------------------------------------------------------------- properties
\* The channel ids of the rows.
RowCids == {channels[i].cid : i \in 1..Len(channels)}

\* The latest operation was an init_model that rebuilt the list: it alone
\* resets the model.
Rebuilt == Len(signals) > 0 /\ signals[1].name = "beginResetModel"

\* C1: no two rows of the list have the same channel id.
C1_UniqueCids ==
    \A i, j \in 1..Len(channels) : i # j => channels[i].cid # channels[j].cid

C2_Key(r) == r.state_code + (IF r.is_backup THEN 10 ELSE 0)

C3_RebuildMirrorsDomain ==
    (Rebuilt /\ lnworker) =>
        /\ Len(channels) = Cardinality(get_channel_objects(domain))
        /\ RowCids = get_channel_objects(domain)

\* A rebuilt list of two rows.
C3_Witness ==
    /\ Rebuilt /\ lnworker
    /\ Cardinality(get_channel_objects(domain)) = 2
    /\ Len(channels) = 2

\* C4: an update of a channel whose id is in the list keeps the number and
\* the order of the rows and every other row, and leaves the row of that id
\* equal to the full mapping of the channel as it is now.
C4_UpdateChangesOneRow ==
    [][ \A cid \in Cids :
          (has_channels /\ cid \in RowCids /\ OnChannelUpdated(cid)) =>
              /\ Len(channels') = Len(channels)
              /\ \E i \in 1..Len(channels) :
                    /\ channels[i].cid = cid
                    /\ channels'[i] = channel_to_model(Lnc(cid, domain[cid]))
                    /\ \A j \in 1..Len(channels) : j # i => channels'[j] = channels[j] ]_vars

\* The second of two rows has just been updated.
C4_Witness ==
    /\ Len(signals) > 0
    /\ signals[1].name = "dataChanged" /\ signals[1].args = << 1, 1 >>
    /\ Len(channels) = 2

\* C5: inserting a cid that has no row but is in the wallet's channel
\* collection puts one row for it at position 0 and shifts every former row
\* down by one, unchanged.
C5_InsertPrepends ==
    [][ \A cid \in Cids :
          (cid \notin RowCids /\ cid \in lnworker_channels(domain) /\ NewChannel(cid)) =>
              /\ Len(channels') = Len(channels) + 1
              /\ channels'[1].cid = cid
              /\ Cardinality({j \in 1..Len(channels') : channels'[j].cid = cid}) = 1
              /\ \A j \in 1..Len(channels) : channels'[j + 1] = channels[j] ]_vars

\* A row has just been inserted above a row of another channel.
C5_Witness ==
    /\ Len(signals) > 0
    /\ signals[1].name = "beginInsertRows" /\ signals[1].args = << 0, 0 >>
    /\ Len(channels) = 2
    /\ channels[1].cid # channels[2].cid

\* list without its i-th element.
C6_Without(list, i) == SubSeq(list, 1, i - 1) \o SubSeq(list, i + 1, Len(list))

\* C6: removing a cid that has a row deletes one row of that cid, keeps the
\* others in order, and announces the position the deleted row had; removing
\* a cid that has no row changes nothing and announces nothing.
C6_RemoveDeletesOneRow ==
    [][ \A cid \in Cids :
          RemoveChannel(cid) =>
              IF has_channels /\ cid \in RowCids
              THEN \E i \in 1..Len(channels) :
                      /\ channels[i].cid = cid
                      /\ channels' = C6_Without(channels, i)
                      /\ \E k \in 1..Len(signals') :
                            /\ signals'[k].name = "beginRemoveRows"
                            /\ signals'[k].args = << i - 1, i - 1 >>
              ELSE /\ channels' = channels
                   /\ has_channels' = has_channels
                   /\ signals' = << >> ]_vars

\* The second of two rows has just been removed.
C6_Witness ==
    /\ Len(signals) > 0
    /\ signals[1].name = "beginRemoveRows" /\ signals[1].args = << 1, 1 >>
    /\ Len(channels) = 1

\* C7: no operation raises: the latest state-changing method ended normally,
\* and the row-count reads return.
C7_NoOperationRaises ==
    /\ error = "none"
    /\ rowCount(has_channels, channels).error = "none"
    /\ count(has_channels, channels).error = "none"

\* C8: data(index, role) returns for every row and every declared role.
C8_EveryRoleReadable ==
    \A i \in 1..Len(channels) :
        \A role \in _ROLE_KEYS :
            data(has_channels, channels, i - 1, role).error = "none"

\* C9: numOpenChannels is the number of rows whose state code is OPEN.
C9_OpenCount ==
    LET n == numOpenChannels(has_channels, channels)
    IN  /\ n.error = "none"
        /\ n.value = Cardinality({i \in 1..Len(channels) : channels[i].state_code = OPEN})

\* The positions of the rows whose backup flag equals flag.
C10_RowsWithFlag(flag) == {i \in 1..Len(channels) : channels[i].is_backup = flag}

\* C10: each filter proxy that exists shows exactly the rows whose backup
\* flag equals its filter value, in list order, and the two together show
\* every row once.
C10_FilteredViewsFollow ==
    /\ fm_backups.created =>
          /\ fm_backups.rows = C10_RowsWithFlag(TRUE)
          /\ Shown(channels, fm_backups.rows, 1)
                = SelectSeq(channels, LAMBDA r : r.is_backup)
    /\ fm_nobackups.created =>
          /\ fm_nobackups.rows = C10_RowsWithFlag(FALSE)
          /\ Shown(channels, fm_nobackups.rows, 1)
                = SelectSeq(channels, LAMBDA r : ~r.is_backup)
    /\ (fm_backups.created /\ fm_nobackups.created) =>
          /\ fm_backups.rows \cap fm_nobackups.rows = {}
          /\ fm_backups.rows \cup fm_nobackups.rows = 1..Len(channels)

\* Both proxies exist, and a row that has just been updated is a backup
\* shown by the backup proxy beside a non-backup row.
C10_Witness ==
    /\ fm_backups.created /\ fm_nobackups.created
    /\ Len(signals) > 0
    /\ signals[1].name = "dataChanged" /\ signals[1].args = << 0, 0 >>
    /\ Len(channels) = 2
    /\ channels[1].is_backup /\ ~channels[2].is_backup
    /\ fm_backups.rows = {1}

\* C11: once the adapter is destroyed, no event changes the list or makes
\* the adapter emit a notification.
C11_NoEventAfterDestroy ==
    [][ destroyed =>
          /\ channels' = channels
          /\ has_channels' = has_channels
          /\ signals' = << >> ]_vars

\* The adapter is destroyed with its callbacks unregistered while a row is
\* older than its channel, as after a channel event that found no callback.
C11_Witness ==
    /\ destroyed /\ ~registered
    /\ signals = << >>
    /\ \E i \in 1..Len(channels) :
          /\ channels[i].cid \in get_channel_objects(domain)
          /\ channels[i] # channel_to_model(Lnc(channels[i].cid, domain[channels[i].cid]))

\* C12: an event of another wallet changes nothing and emits nothing; a
\* channel event of the adapter's wallet has the effect of on_channel_updated
\* and a channels_updated event that of init_model.
C12_EventsOfOwnWalletOnly ==
    [][ /\ \A w \in Wallets, cid \in Cids :
           \A obj \in EventObjects(w, cid) :
             (registered /\ EventChannel(w, cid, obj)) =>
                 IF w = wallet
                 THEN LET res == on_channel_updated(has_channels, channels, Lnc(cid, obj))
                      IN  channels' = res.list /\ signals' = Observed(res.out)
                 ELSE channels' = channels /\ signals' = << >>
        /\ \A w \in Wallets :
             (registered /\ EventChannelsUpdated(w)) =>
                 IF w = wallet
                 THEN \E order \in Orders(get_channel_objects(domain)) :
                         LET res == init_model(lnworker, domain, has_channels, channels, order)
                         IN  channels' = res.list /\ signals' = Observed(res.out)
                 ELSE channels' = channels /\ signals' = << >> ]_vars

\* Callbacks are registered, nothing was emitted by the latest step, and a
\* row is older than its channel: an event of the other wallet changes none
\* of it.
C12_Witness ==
    /\ registered /\ ~destroyed
    /\ signals = << >>
    /\ Len(channels) = 2
    /\ \E i \in 1..Len(channels) :
          /\ channels[i].cid \in get_channel_objects(domain)
          /\ channels[i] # channel_to_model(Lnc(channels[i].cid, domain[channels[i].cid]))

\* The names of the notifications in a list of them.
Names(sigs) == {sigs[k].name : k \in 1..Len(sigs)}

\* C13: an update of a channel that has no row, and an insert of a cid that
\* is not in the wallet's channel collection, leave the list as it is and
\* emit no row-changed, row-inserted, count-changed or open-count-changed
\* notification.
C13_UnresolvedIdIsNoOp ==
    [][ \A cid \in Cids :
          /\ (cid \notin RowCids /\ OnChannelUpdated(cid)) =>
                /\ channels' = channels
                /\ Names(signals') \cap {"dataChanged", "beginInsertRows", "endInsertRows",
                                         "countChanged", "numOpenChannelsChanged"} = {}
          /\ (cid \notin lnworker_channels(domain) /\ NewChannel(cid)) =>
                /\ channels' = channels
                /\ Names(signals') \cap {"dataChanged", "beginInsertRows", "endInsertRows",
                                         "countChanged", "numOpenChannelsChanged"} = {}
      ]_vars

\* Nothing was emitted by the latest step and a backup of the wallet has no
\* row beside the row of another channel: its update finds no row and its
\* insert finds no channel.
C13_Witness ==
    /\ has_channels /\ ~destroyed /\ registered
    /\ signals = << >> /\ error = "none"
    /\ Len(channels) = 1
    /\ \E cid \in get_channel_objects(domain) :
          /\ cid \notin RowCids
          /\ cid \notin lnworker_channels(domain)

\* C14: a step that changes the number of rows emits countChanged once the
\* list has its new length.
C14_CountChangedOnResize ==
    [][ Len(channels') # Len(channels) =>
          \E k \in 1..Len(signals') :
              /\ signals'[k].name = "countChanged"
              /\ signals'[k].rows = Len(channels') ]_vars

\* A row has just been removed and countChanged came after it.
C14_Witness ==
    /\ Len(signals) = 3
    /\ signals[1].name = "beginRemoveRows"
    /\ signals[3].name = "countChanged" /\ signals[3].rows = Len(channels)
    /\ Len(channels) = 1

\* C15: a step that changes the number of OPEN rows emits
\* numOpenChannelsChanged.
C15_OpenCountNotified ==
    [][ SumOpen(channels') # SumOpen(channels) =>
          "numOpenChannelsChanged" \in Names(signals') ]_vars

\* C16: every begin-insert-rows(first, last) has 0 <= first <= last and is
\* followed at once by its end-insert-rows with the list longer by
\* last - first + 1; every begin-remove-rows(i, i) names an existing row and
\* is followed at once by its end-remove-rows with the list shorter by one;
\* every begin has its end and every end its begin.
C16_RowRangesWellFormed ==
    \A k \in 1..Len(signals) :
        LET sig == signals[k]
            closes(name, delta) ==
                /\ k < Len(signals)
                /\ signals[k + 1].name = name
                /\ signals[k + 1].args = sig.args
                /\ signals[k + 1].rows = sig.rows + delta
            opens(name) == k > 1 /\ signals[k - 1].name = name
        IN  /\ sig.name = "beginInsertRows" =>
                /\ 0 <= sig.args[1] /\ sig.args[1] <= sig.args[2]
                /\ sig.args[1] <= sig.rows
                /\ closes("endInsertRows", sig.args[2] - sig.args[1] + 1)
            /\ sig.name = "beginRemoveRows" =>
                /\ 0 <= sig.args[1] /\ sig.args[1] = sig.args[2]
                /\ sig.args[2] < sig.rows
                /\ closes("endRemoveRows", -1)
            /\ sig.name = "beginResetModel" => k < Len(signals) /\ signals[k + 1].name = "endResetModel"
            /\ sig.name = "endInsertRows" => opens("beginInsertRows")
            /\ sig.name = "endRemoveRows" => opens("beginRemoveRows")
            /\ sig.name = "endResetModel" => opens("beginResetModel")

\* C17: after a removal, with the channels of the wallet as they were, the
\* insert of a cid that the wallet holds (channel or backup) and that has no
\* row gives the list exactly one row for it, with the values of its channel.
C17_RemoveThenInsertRestores ==
    [][ \A cid \in Cids :
          ( /\ Len(signals) > 0 /\ signals[1].name = "beginRemoveRows"
            /\ cid \in get_channel_objects(domain)
            /\ cid \notin RowCids
            /\ NewChannel(cid) ) =>
              /\ Cardinality({j \in 1..Len(channels') : channels'[j].cid = cid}) = 1
              /\ \E j \in 1..Len(channels') :
                    channels'[j] = channel_to_model(Lnc(cid, domain[cid])) ]_vars

\* C18: a backup row has empty spendable, receivable, local and remote
\* amounts, and a row that is no backup is not imported.
C18_BackupRowsAreEmpty ==
    \A i \in 1..Len(channels) :
        LET r == channels[i]
        IN  /\ r.is_backup =>
                /\ r.can_send = QEAmount(0, 0)
                /\ r.can_receive = QEAmount(0, 0)
                /\ r.local_capacity = QEAmount(0, 0)
                /\ r.remote_capacity = QEAmount(0, 0)
            /\ ~r.is_backup => r.is_imported = FALSE

\* The row that has just been updated is an imported backup, beside a row
\* that is no backup.
C18_Witness ==
    /\ Len(signals) > 0
    /\ signals[1].name = "dataChanged" /\ signals[1].args = << 0, 0 >>
    /\ Len(channels) = 2
    /\ channels[1].is_backup /\ channels[1].is_imported
    /\ ~channels[2].is_backup

====
